---- MODULE Spec2Model ----
(***************************************************************************)
(* Model of the log collector service (src/log-collector/app.py): the      *)
(* startup loop that creates the schema, and the POST /collect handler     *)
(* with its four side effects (database insert, metric increment,          *)
(* persistor call, Splunk HEC call), run by concurrent requests.           *)
(*                                                                         *)
(* Strings the code inspects character by character (the level, the event  *)
(* id) are sequences of one-character strings; other strings are opaque.   *)
(***************************************************************************)
EXTENDS Integers, Sequences, FiniteSets, Bags, TLC

\* ---------------------------------------------------------------- bounds
\* Number of /collect requests issued in a behaviour.
NReq == 2
\* Last value of the millisecond clock (it starts at 0).
MaxClock == 1

Requests == 1..NReq

\* ------------------------------------------------------ program constants
\* range(10) of the startup loop.
MaxInitAttempts == 10

S_ERROR == <<"E", "R", "R", "O", "R">>
S_WARNING == <<"W", "A", "R", "N", "I", "N", "G">>
S_INFO == <<"I", "N", "F", "O">>
S_DEBUG == <<"D", "E", "B", "U", "G">>

ALLOWED_LEVELS == {S_ERROR, S_WARNING, S_INFO, S_DEBUG}

\* Variant: the table without its auth entry.
PERSISTORS_NoAuth ==
  [t \in {"payment", "system", "application"} |->
     CASE t = "payment" -> "http://persistor-payment:6000"
       [] t = "system" -> "http://persistor-system:6000"
       [] t = "application" -> "http://persistor-application:6000"]

PERSISTORS ==
  [t \in {"auth", "payment", "system", "application"} |->
     CASE t = "auth" -> "http://persistor-auth:6000"
       [] t = "payment" -> "http://persistor-payment:6000"
       [] t = "system" -> "http://persistor-system:6000"
       [] t = "application" -> "http://persistor-application:6000"]

SPLUNK_HEC == "http://splunk:8088/services/collector"
SPLUNK_SOURCETYPE == "_json"

\* ------------------------------------------------------- string functions
LowerChars == <<"a", "b", "d", "e", "f", "g", "i", "l", "n", "o", "r", "t", "u", "w">>
UpperChars == <<"A", "B", "D", "E", "F", "G", "I", "L", "N", "O", "R", "T", "U", "W">>
Whitespace == {" ", "\t", "\n"}

\* str.upper() on one character: a lower-case letter becomes its capital,
\* anything else is kept.
UpperChar(c) ==
  IF \E i \in 1..Len(LowerChars) : LowerChars[i] = c
  THEN UpperChars[CHOOSE i \in 1..Len(LowerChars) : LowerChars[i] = c]
  ELSE c

Upper(s) == [i \in 1..Len(s) |-> UpperChar(s[i])]

\* str.strip(): drops leading and trailing whitespace, keeps the inside.
Strip(s) ==
  LET keep == {i \in 1..Len(s) : s[i] \notin Whitespace} IN
  IF keep = {} THEN <<>>
  ELSE LET lo == CHOOSE i \in keep : \A j \in keep : i <= j
           hi == CHOOSE i \in keep : \A j \in keep : j <= i
       IN SubSeq(s, lo, hi)

Digits == <<"0", "1", "2", "3", "4", "5", "6", "7", "8", "9">>

\* str(n) for a natural number: its decimal digits.
RECURSIVE ToStr(_)
ToStr(n) ==
  IF n < 10 THEN <<Digits[n + 1]>>
  ELSE Append(ToStr(n \div 10), Digits[(n % 10) + 1])

\* ------------------------------------------------------- request payloads
\* A JSON object is a function from the keys it has to their values.
Has(event, k) == k \in DOMAIN event
Get(event, k, default) == IF Has(event, k) THEN event[k] ELSE default

\* What request.get_json() hands to the handler: nothing (None), a JSON
\* value that is not an object, or an object.
NoKeys == [k \in {} |-> ""]
NoBody == [kind |-> "none", obj |-> NoKeys, items |-> <<>>]
EmptyObject == [kind |-> "object", obj |-> NoKeys, items |-> <<>>]
EmptyList == [kind |-> "list", obj |-> NoKeys, items |-> <<>>]
NonEmptyList == [kind |-> "list", obj |-> NoKeys, items |-> <<1>>]

\* Timestamps are milliseconds; the ISO-8601 strings datetime.fromisoformat
\* accepts, with the instant each denotes.
IsoTable == [s \in {"1970-01-01T00:00:00.007"} |-> 7]

Events ==
  { [event_id |-> <<"a">>, level |-> <<" ", "e", "r", "r", "o", "r", "\n">>,
     message |-> "m1", client_name |-> "c1", type |-> "auth",
     timestamp |-> "1970-01-01T00:00:00.007"],
    [event_id |-> <<"a">>, level |-> <<"F", "a", "t", "a", "l">>,
     message |-> "m2", type |-> "other", timestamp |-> "yesterday"],
    [message |-> "m1"],
    [event_id |-> <<>>, level |-> <<>>, message |-> "m1", timestamp |-> ""] }

Bodies ==
  {NoBody, EmptyObject, EmptyList, NonEmptyList}
    \cup {[kind |-> "object", obj |-> e, items |-> <<>>] : e \in Events}

\* bool(event) of line 115: None, {} and [] are falsy.
Truthy(b) ==
  CASE b.kind = "none" -> FALSE
    [] b.kind = "object" -> DOMAIN b.obj # {}
    [] b.kind = "list" -> Len(b.items) > 0

\* ------------------------------------------------------------ normalizer
\* Variant: no check against ALLOWED_LEVELS.
normalize_level_unchecked(l) == IF l = <<>> THEN S_INFO ELSE Upper(Strip(l))

\* normalize_level; a missing level arrives as None, which is falsy like "".
normalize_level(l) ==
  IF l = <<>> THEN S_INFO
  ELSE LET lvl == Upper(Strip(l)) IN
       IF lvl \in ALLOWED_LEVELS THEN lvl ELSE S_INFO

\* event.get("event_id") or str(int(time.time() * 1000)); the clock counts
\* milliseconds.
generate_event_id(event, clock) ==
  IF Get(event, "event_id", <<>>) # <<>> THEN event["event_id"]
  ELSE ToStr(clock)

\* Variant: an unparseable timestamp becomes the epoch.
parse_timestamp_epoch(ts, clock) ==
  IF ts = "" THEN clock
  ELSE IF ts \in DOMAIN IsoTable THEN IsoTable[ts] ELSE 0

\* datetime.fromisoformat(ts) if ts else datetime.utcnow(), with utcnow()
\* again when fromisoformat raises. A missing timestamp is None, falsy like "".
parse_timestamp(ts, clock) ==
  IF ts = "" THEN clock
  ELSE IF ts \in DOMAIN IsoTable THEN IsoTable[ts] ELSE clock

\* datetime.isoformat()
isoformat(t) == <<"iso", t>>

\* The fields collect() derives from the payload (lines 118-128).
Normalize(event, clock) ==
  [event_id |-> generate_event_id(event, clock),
   level |-> normalize_level(Get(event, "level", <<>>)),
   message |-> Get(event, "message", ""),
   client_name |-> Get(event, "client_name", "unknown"),
   type |-> Get(event, "type", "application"),
   timestamp |-> parse_timestamp(Get(event, "timestamp", ""), clock)]

NoFields ==
  [event_id |-> <<>>, level |-> <<>>, message |-> "", client_name |-> "",
   type |-> "", timestamp |-> 0]

\* ---------------------------------------------------------------- store
\* Variant: a plain INSERT on a column that is not UNIQUE.
InsertPlain(table, row) == table \cup {row}

\* INSERT ... ON CONFLICT (event_id) DO NOTHING on a table whose event_id
\* column is UNIQUE.
Insert(table, row) ==
  IF \E x \in table : x.event_id = row.event_id THEN table
  ELSE table \cup {row}

\* --------------------------------------------------------------- metrics
Label(f) == [level |-> f.level, client |-> f.client_name, type |-> f.type]

\* Variant: the label is counted the first time only.
IncSet(counter, label) ==
  IF BagIn(label, counter) THEN counter ELSE counter (+) SetToBag({label})

\* log_counter.labels(...).inc()
Inc(counter, label) == counter (+) SetToBag({label})

\* ------------------------------------------------------------ forwarders
\* The payload forward_to_splunk builds from the normalized event.
SplunkPayload(f) ==
  [time |-> isoformat(f.timestamp),
   host |-> f.client_name,
   source |-> "log_collector",
   sourcetype |-> SPLUNK_SOURCETYPE,
   event |-> [event_id |-> f.event_id, level |-> f.level, message |-> f.message],
   fields |-> [client_name |-> f.client_name, type |-> f.type]]

DbOutcomes == {"ok", "connect_error", "execute_error"}
\* requests.post returns a response, whose status the persistor call does not
\* read, or raises (a refused connection, a timeout).
PersistorOutcomes == {"response", "exception"}
HecOutcomes == {"200", "500", "exception"}

\* Where a request goes next and what it answers, if it answers.
Goto(label, status, text) == [pc |-> label, status |-> status, body |-> text]

\* Variant: only a missing body is rejected (if event is None).
InvalidPayloadContinues(body) ==
  IF body.kind = "none" THEN Goto("done", 400, "invalid payload")
  ELSE IF body.kind # "object" THEN Goto("done", 500, "Internal Server Error")
  ELSE Goto("db", 0, "")

\* Lines 114-123: a falsy body is answered 400; a truthy body that is not an
\* object has no .get, the AttributeError leaves the handler and the
\* framework answers 500.
OnBody(body) ==
  IF ~Truthy(body) THEN Goto("done", 400, "invalid payload")
  ELSE IF body.kind # "object" THEN Goto("done", 500, "Internal Server Error")
  ELSE Goto("db", 0, "")

\* Variant: the database error is swallowed and the handler goes on.
OnDbErrorSwallowed(outcome) == Goto("metric", 0, "")

\* except Exception of lines 163-165.
OnDbError(outcome) == Goto("done", 500, outcome)

\* if persistor_url: of line 146.
AfterInc(type) == IF type \in DOMAIN PERSISTORS THEN "persist" ELSE "hec"

\* Variant: no try/except around the persistor call.
OnPersistorPropagate(outcome) ==
  IF outcome = "exception" THEN Goto("done", 500, outcome) ELSE Goto("hec", 0, "")

\* Variant: the persistor call is made again after it raised.
OnPersistorRetry(outcome) ==
  IF outcome = "exception" THEN Goto("persist", 0, "") ELSE Goto("hec", 0, "")

\* try/except of lines 147-150: the status is not looked at, an exception
\* is logged.
OnPersistor(outcome) == Goto("hec", 0, "")

\* forward_to_splunk's try/except, then return 200 (line 162).
OnHec(outcome) == Goto("done", 200, "ok")

\* ----------------------------------------------------------------- state
VARIABLES
  phase,          \* "starting": in the startup loop; "serving": app.run()
  i,              \* the startup loop's variable: the rounds already failed
  tableExists,    \* the logs table has been created
  now,            \* the clock, in milliseconds
  logs,           \* the rows of the logs table
  log_counter,    \* the Prometheus counter: a bag of label triples
  pc,             \* per request: idle, db, metric, persist, hec, done
  body,           \* per request: what get_json() returned
  fields,         \* per request: the normalized fields
  resp,           \* per request: the response, status 0 while there is none
  attempts,       \* per request: database writes and increments attempted
  persistorCalls, \* per request: the POSTs made to a persistor, in order
  hecCalls        \* per request: the POSTs made to the HEC endpoint, in order

vars ==
  <<phase, i, tableExists, now, logs, log_counter, pc, body, fields, resp,
    attempts, persistorCalls, hecCalls>>

startupVars == <<phase, i, tableExists>>
requestVars ==
  <<logs, log_counter, pc, body, fields, resp, attempts, persistorCalls,
    hecCalls>>

NoResponse == [status |-> 0, body |-> ""]

Init ==
  /\ phase = "starting"
  /\ i = 0
  /\ tableExists = FALSE
  /\ now = 0
  /\ logs = {}
  /\ log_counter = EmptyBag
  /\ pc = [r \in Requests |-> "idle"]
  /\ body = [r \in Requests |-> NoBody]
  /\ fields = [r \in Requests |-> NoFields]
  /\ resp = [r \in Requests |-> NoResponse]
  /\ attempts = [r \in Requests |-> [db |-> 0, inc |-> 0]]
  /\ persistorCalls = [r \in Requests |-> <<>>]
  /\ hecCalls = [r \in Requests |-> <<>>]

\* ---------------------------------------------------------------- startup
\* The loop of lines 200-206 is left by the break after a successful
\* init_db(), or when range(10) is exhausted.
LeavesLoop(ok, round) == ok \/ round + 1 = MaxInitAttempts

\* One round of the loop: init_db() succeeds, or it raises and the round
\* sleeps. When the loop is left app.run() starts; i is not read again and
\* is cleared.
StartupRound(ok) ==
  /\ phase = "starting"
  /\ i < MaxInitAttempts
  /\ tableExists' = (tableExists \/ ok)
  /\ IF LeavesLoop(ok, i)
     THEN phase' = "serving" /\ i' = 0
     ELSE phase' = "starting" /\ i' = i + 1
  /\ UNCHANGED <<now, requestVars>>

\* ---------------------------------------------------------------- collect
\* Move request r on by the step g, answering if g carries a status.
Step(r, g) ==
  /\ pc' = [pc EXCEPT ![r] = g.pc]
  /\ resp' = IF g.status = 0 THEN resp
             ELSE [resp EXCEPT ![r] = [status |-> g.status, body |-> g.body]]

\* Lines 114-128: request r arrives with body b when the clock shows t;
\* requests are numbered in the order they arrive, and time does not go back.
Receive(r, b, t) ==
  /\ phase = "serving"
  /\ pc[r] = "idle"
  /\ \A q \in Requests : q < r => pc[q] # "idle"
  /\ t >= now
  /\ now' = t
  /\ body' = [body EXCEPT ![r] = b]
  /\ Step(r, OnBody(b))
  /\ fields' = IF OnBody(b).pc = "done"
               THEN fields
               ELSE [fields EXCEPT ![r] = Normalize(b.obj, t)]
  /\ UNCHANGED <<startupVars, logs, log_counter, attempts,
                 persistorCalls, hecCalls>>

\* Lines 132-139: connect, insert, commit. The insert cannot succeed on a
\* table that was never created.
DbWrite(r, outcome) ==
  /\ pc[r] = "db"
  /\ outcome = "ok" => tableExists
  /\ attempts' = [attempts EXCEPT ![r].db = @ + 1]
  /\ IF outcome = "ok"
     THEN logs' = Insert(logs, fields[r]) /\ Step(r, Goto("metric", 0, ""))
     ELSE logs' = logs /\ Step(r, OnDbError(outcome))
  /\ UNCHANGED <<startupVars, now, log_counter, body, fields, persistorCalls,
                 hecCalls>>

\* Line 142, and the lookup of lines 145-146.
Increment(r) ==
  /\ pc[r] = "metric"
  /\ log_counter' = Inc(log_counter, Label(fields[r]))
  /\ attempts' = [attempts EXCEPT ![r].inc = @ + 1]
  /\ Step(r, Goto(AfterInc(fields[r].type), 0, ""))
  /\ UNCHANGED <<startupVars, now, logs, body, fields, persistorCalls,
                 hecCalls>>

\* Lines 147-150: the POST to the persistor of the event's type.
Persistor(r, outcome) ==
  /\ pc[r] = "persist"
  /\ persistorCalls' =
       [persistorCalls EXCEPT ![r] =
          Append(@, [url |-> <<Get(PERSISTORS, fields[r].type, ""), "/store">>,
                     json |-> body[r].obj, outcome |-> outcome])]
  /\ Step(r, OnPersistor(outcome))
  /\ UNCHANGED <<startupVars, now, logs, log_counter, body, fields, attempts,
                 hecCalls>>

\* Lines 153-162: forward_to_splunk, then the 200.
Hec(r, outcome) ==
  /\ pc[r] = "hec"
  /\ hecCalls' =
       [hecCalls EXCEPT ![r] =
          Append(@, [url |-> SPLUNK_HEC, json |-> SplunkPayload(fields[r]),
                     outcome |-> outcome])]
  /\ Step(r, OnHec(outcome))
  /\ UNCHANGED <<startupVars, now, logs, log_counter, body, fields, attempts,
                 persistorCalls>>

Next ==
  \/ \E ok \in BOOLEAN : StartupRound(ok)
  \/ \E r \in Requests, b \in Bodies, t \in 0..MaxClock : Receive(r, b, t)
  \/ \E r \in Requests, o \in DbOutcomes : DbWrite(r, o)
  \/ \E r \in Requests : Increment(r)
  \/ \E r \in Requests, o \in PersistorOutcomes : Persistor(r, o)
  \/ \E r \in Requests, o \in HecOutcomes : Hec(r, o)

Spec == Init /\ [][Next]_vars

\* ------------------------------------------------------ reading a state
Arrived(r) == pc[r] # "idle"
Answered(r) == pc[r] = "done"
IsEventBody(b) == b.kind = "object" /\ DOMAIN b.obj # {}
IsEvent(r) == Arrived(r) /\ IsEventBody(body[r])
Raw(r, k, default) == Get(body[r].obj, k, default)
RowFor(r) == {x \in logs : x.event_id = fields[r].event_id}
\* The request has gone past its database write without an exception.
Written(r) == attempts[r].inc > 0 \/ pc[r] = "metric"
Quiescent == \A r \in Requests : pc[r] \in {"idle", "done"}
PersistorRaised(r) ==
  \E k \in 1..Len(persistorCalls[r]) : persistorCalls[r][k].outcome = "exception"
HecFailed(r) ==
  \E k \in 1..Len(hecCalls[r]) : hecCalls[r][k].outcome # "200"

\* ---------------------------------------------------------------- C1
C1_Unique == \A x, y \in logs : x.event_id = y.event_id => x = y

C1_DuplicateStep ==
  /\ logs \subseteq logs'
  /\ \A r \in Requests :
       (pc[r] = "db" /\ pc'[r] = "metric" /\ RowFor(r) # {}) => logs' = logs

\* C1: the logs table never holds two rows with one event_id; rows are never
\* changed or removed; a /collect whose event_id is already stored leaves the
\* table as it is, and once its write has gone through it is answered 200.
C1_Idempotent ==
  /\ [](C1_Unique /\ \A r \in Requests :
          (Answered(r) /\ Written(r)) => resp[r].status = 200)
  /\ [][C1_DuplicateStep]_vars

\* Two answered requests carried the same event_id and different fields; one
\* row is stored, the first one's, and both got 200.
C1_Witness ==
  \E r, q \in Requests :
    /\ r # q /\ Answered(r) /\ Answered(q)
    /\ resp[r].status = 200 /\ resp[q].status = 200
    /\ fields[r].event_id = fields[q].event_id
    /\ fields[r].message # fields[q].message
    /\ logs = {fields[q]}

\* ---------------------------------------------------------------- C2
SameLetter(c, u) ==
  c = u \/ \E k \in 1..Len(UpperChars) : UpperChars[k] = u /\ LowerChars[k] = c

Spells(l, word) ==
  Len(l) = Len(word) /\ \A k \in 1..Len(word) : SameLetter(l[k], word[k])

\* l is the word in any letter case, with whitespace around it and nothing else.
Decorated(l, word) ==
  \E lo \in 1..(Len(l) + 1) :
    LET hi == lo + Len(word) - 1 IN
    /\ hi <= Len(l)
    /\ Spells(SubSeq(l, lo, hi), word)
    /\ \A k \in 1..Len(l) : (k < lo \/ k > hi) => l[k] \in Whitespace

ExpectedLevel(l) ==
  IF \E w \in ALLOWED_LEVELS : Decorated(l, w)
  THEN CHOOSE w \in ALLOWED_LEVELS : Decorated(l, w)
  ELSE S_INFO

LowerCased(s) ==
  [k \in 1..Len(s) |->
     IF \E j \in 1..Len(UpperChars) : UpperChars[j] = s[k]
     THEN LowerChars[CHOOSE j \in 1..Len(UpperChars) : UpperChars[j] = s[k]]
     ELSE s[k]]

Capitalized(s) == <<s[1]>> \o LowerCased(Tail(s))

LevelWords ==
  ALLOWED_LEVELS
    \cup {LowerCased(w) : w \in ALLOWED_LEVELS}
    \cup {Capitalized(w) : w \in ALLOWED_LEVELS}
    \cup {<<>>, <<"F", "A", "T", "A", "L">>, <<"i", "n", "f">>,
          <<"I", "N", " ", "F", "O">>, <<"d", "e", "b", "u", "g", "g">>}

Padding == {<<>>, <<" ">>, <<"\t">>, <<"\n", " ">>}

LevelSamples == {a \o w \o b : a \in Padding, w \in LevelWords, b \in Padding}

\* A constant: it says the same in every state, and is looked at in the
\* states of the startup only.
C2_Samples ==
  \A l \in LevelSamples :
    normalize_level(l) \in ALLOWED_LEVELS /\ normalize_level(l) = ExpectedLevel(l)

C3_ForwardFailuresSwallowed ==
  \A r \in Requests :
    (PersistorRaised(r) \/ HecFailed(r)) =>
      /\ pc[r] \in {"hec", "done"}
      /\ Answered(r) => (resp[r].status = 200 /\ Len(hecCalls[r]) = 1)
      /\ RowFor(r) # {}
      /\ BagIn(Label(fields[r]), log_counter)

\* A request whose persistor call raised and whose HEC call was answered 500
\* got 200; its row is stored and counted.
C3_Witness ==
  \E r \in Requests :
    /\ Answered(r) /\ resp[r].status = 200
    /\ PersistorRaised(r)
    /\ Len(hecCalls[r]) = 1 /\ hecCalls[r][1].outcome = "500"
    /\ fields[r] \in logs
    /\ CopiesIn(Label(fields[r]), log_counter) = 1

\* ---------------------------------------------------------------- C4
OncePerRequest ==
  \A r \in Requests :
    /\ attempts[r].db <= 1
    /\ attempts[r].inc <= 1
    /\ Len(persistorCalls[r]) <= 1
    /\ Len(hecCalls[r]) <= 1

\* C4 as stated: every operation, the startup schema creation included, is
\* attempted at most once and never again after it has failed. i counts the
\* init_db() calls that have failed while the startup loop goes on: at i = 2
\* init_db() has been called a second time, after its first failure.
C4_SingleAttempt == OncePerRequest /\ i <= 1

\* C4 as amended: the insert, the increment, the persistor call and the HEC
\* call are attempted at most once for a request; init_db() is called again
\* after each failure, at most MaxInitAttempts times in all, and not again
\* once it has succeeded.
C4_RetryOnlyAtStartup ==
  /\ OncePerRequest
  /\ i < MaxInitAttempts
  /\ phase = "starting" => ~tableExists

\* One request's insert raised and it was answered 500 after that one try;
\* another's persistor call raised and its HEC call raised, one call each.
C4_Witness ==
  \E r, q \in Requests :
    /\ Answered(r) /\ resp[r].status = 500 /\ attempts[r].db = 1
    /\ Answered(q) /\ PersistorRaised(q) /\ Len(persistorCalls[q]) = 1
    /\ Len(hecCalls[q]) = 1 /\ hecCalls[q][1].outcome = "exception"

\* ---------------------------------------------------------------- C5
\* C5: the database write comes first. A request that has incremented the
\* counter or called a persistor or the HEC endpoint has its event_id in the
\* table; a request whose write was tried and left no row is answered 500;
\* an event answered 500 has tried its write once, has incremented nothing
\* and has called nobody.
C5_DbWriteFirst ==
  \A r \in Requests :
    /\ (attempts[r].inc > 0 \/ persistorCalls[r] # <<>> \/ hecCalls[r] # <<>>)
         => (attempts[r].db = 1 /\ RowFor(r) # {})
    /\ (attempts[r].db > 0 /\ RowFor(r) = {}) =>
         /\ Answered(r) /\ resp[r].status = 500
         /\ attempts[r].inc = 0
         /\ persistorCalls[r] = <<>> /\ hecCalls[r] = <<>>
    /\ (IsEvent(r) /\ Answered(r) /\ resp[r].status = 500) =>
         /\ attempts[r] = [db |-> 1, inc |-> 0]
         /\ persistorCalls[r] = <<>> /\ hecCalls[r] = <<>>

\* The insert of an event raised: 500, nothing counted, nobody called.
C5_Witness ==
  \E r \in Requests :
    /\ IsEvent(r) /\ Answered(r) /\ attempts[r].db = 1
    /\ resp[r] = [status |-> 500, body |-> "execute_error"]
    /\ tableExists /\ logs = {} /\ log_counter = EmptyBag
    /\ persistorCalls[r] = <<>> /\ hecCalls[r] = <<>>

\* ---------------------------------------------------------------- C6
Labels == BagToSet(log_counter) \cup {Label(fields[r]) : r \in {q \in Requests : IsEvent(q)}}
Returned200(l) ==
  {r \in Requests : IsEvent(r) /\ Label(fields[r]) = l /\ resp[r].status = 200}
CounterTotal == BagCardinality(log_counter)

CountsAnswered ==
  Quiescent =>
    \A l \in Labels : CopiesIn(l, log_counter) = Cardinality(Returned200(l))

\* C6 as stated: once the requests are answered each counter value is the
\* number of requests of that label that returned 200, and the sum of the
\* counter values is at least the number of rows at all times.
C6_SumAlwaysCoversRows == CountsAnswered /\ CounterTotal >= Cardinality(logs)

\* C6 as amended: once the requests are answered each counter value is the
\* number of requests of that label that returned 200 (repeats of a stored
\* event_id included, requests answered 400 or 500 not); no counter value ever
\* decreases; the sum of the counter values is at least the number of rows
\* whenever no request is between its commit and its increment.
C6_CounterMatchesResponses ==
  /\ [](/\ CountsAnswered
        /\ (\A r \in Requests : pc[r] # "metric")
              => CounterTotal >= Cardinality(logs))
  /\ [][\A l \in BagToSet(log_counter) :
          CopiesIn(l, log_counter') >= CopiesIn(l, log_counter)]_vars

\* Two answered requests of one label, the second repeating the first's
\* event_id: the label counts 2, the table holds 1 row.
C6_Witness ==
  \E r, q \in Requests :
    /\ r # q /\ Quiescent
    /\ resp[r].status = 200 /\ resp[q].status = 200
    /\ body[r] = body[q] /\ Raw(r, "event_id", <<>>) # <<>>
    /\ CopiesIn(Label(fields[r]), log_counter) = 2
    /\ Cardinality(logs) = 1

\* ---------------------------------------------------------------- C7
\* The timestamp field is missing, empty or not an ISO-8601 string.
NoUsableTimestamp(b) ==
  IsEventBody(b) /\ Get(b.obj, "timestamp", "") \notin DOMAIN IsoTable

\* C7: a request without a usable timestamp is not rejected: on arrival it
\* goes on to the database write with the time of its arrival as timestamp,
\* and once written it is counted, forwarded and answered 200 like any other.
C7_TimestampFallback ==
  /\ [][\A r \in Requests :
          (pc[r] = "idle" /\ pc'[r] # "idle" /\ NoUsableTimestamp(body'[r])) =>
             (pc'[r] = "db" /\ fields'[r].timestamp = now')]_vars
  /\ [](\A r \in Requests :
          (Answered(r) /\ NoUsableTimestamp(body[r]) /\ Written(r)) =>
             /\ resp[r].status = 200
             /\ attempts[r].inc = 1
             /\ Len(hecCalls[r]) = 1
             /\ hecCalls[r][1].json.time = isoformat(fields[r].timestamp))

\* A request with an unparseable timestamp, arrived at time 1, is stored with
\* timestamp 1, counted, forwarded and answered 200.
C7_Witness ==
  \E r \in Requests :
    /\ Answered(r) /\ resp[r].status = 200
    /\ Raw(r, "timestamp", "") = "yesterday"
    /\ fields[r].timestamp = 1 /\ fields[r] \in logs
    /\ BagIn(Label(fields[r]), log_counter)
    /\ Len(hecCalls[r]) = 1

\* ---------------------------------------------------------------- C8
PersistedTypes == {"auth", "payment", "system", "application"}

ConfiguredUrl(type) ==
  CASE type = "auth" -> "http://persistor-auth:6000"
    [] type = "payment" -> "http://persistor-payment:6000"
    [] type = "system" -> "http://persistor-system:6000"
    [] type = "application" -> "http://persistor-application:6000"

\* C8: a written request that has reached the HEC call or its answer has made
\* one persistor call, to the URL of its type, if its type (application when
\* absent) is auth, payment, system or application, and none otherwise; answered
\* 200, it has made its HEC call whatever the type, and is stored and counted.
C8_PersistorByType ==
  \A r \in Requests :
    LET type == Raw(r, "type", "application") IN
    /\ (IsEvent(r) /\ Written(r) /\ pc[r] \in {"hec", "done"}) =>
         IF type \in PersistedTypes
         THEN /\ Len(persistorCalls[r]) = 1
              /\ persistorCalls[r][1].url = <<ConfiguredUrl(type), "/store">>
         ELSE persistorCalls[r] = <<>>
    /\ (IsEvent(r) /\ Answered(r) /\ resp[r].status = 200) =>
         /\ Len(hecCalls[r]) = 1
         /\ hecCalls[r][1].json.fields.type = type
         /\ RowFor(r) # {}
         /\ BagIn(Label(fields[r]), log_counter)
    /\ persistorCalls[r] # <<>> => IsEvent(r) /\ Written(r)

\* An event of type auth went to the auth persistor, one without a type to
\* the application persistor; both were sent to the HEC endpoint.
C8_Witness ==
  \E r, q \in Requests :
    /\ Answered(r) /\ Answered(q)
    /\ Raw(r, "type", "application") = "auth"
    /\ ~Has(body[q].obj, "type")
    /\ Len(persistorCalls[r]) = 1 /\ Len(persistorCalls[q]) = 1
    /\ persistorCalls[r][1].url = <<"http://persistor-auth:6000", "/store">>
    /\ persistorCalls[q][1].url = <<"http://persistor-application:6000", "/store">>
    /\ Len(hecCalls[r]) = 1 /\ Len(hecCalls[q]) = 1

\* A second case of C8: an event of a type without a persistor is stored,
\* counted and sent to the HEC endpoint, and no persistor was called.
C8_WitnessOther ==
  \E r \in Requests :
    /\ Answered(r) /\ resp[r].status = 200
    /\ Raw(r, "type", "application") = "other"
    /\ persistorCalls[r] = <<>> /\ Len(hecCalls[r]) = 1
    /\ fields[r] \in logs /\ BagIn(Label(fields[r]), log_counter)

\* ---------------------------------------------------------------- C9
FalsyBodies == {NoBody, EmptyObject, EmptyList}

\* C9: a request whose body is absent or an empty JSON value is answered 400,
\* "invalid payload", in the step it arrives in, which changes neither the
\* table nor the counter nor the calls made; it never does anything after.
C9_InvalidPayload ==
  /\ [][\A r \in Requests :
          (pc[r] = "idle" /\ pc'[r] # "idle" /\ body'[r] \in FalsyBodies) =>
             /\ pc'[r] = "done"
             /\ resp'[r] = [status |-> 400, body |-> "invalid payload"]
             /\ UNCHANGED <<logs, log_counter, persistorCalls, hecCalls>>]_vars
  /\ [](\A r \in Requests :
          (Arrived(r) /\ body[r] \in FalsyBodies) =>
             /\ Answered(r) /\ resp[r].status = 400
             /\ attempts[r] = [db |-> 0, inc |-> 0]
             /\ persistorCalls[r] = <<>> /\ hecCalls[r] = <<>>)

\* An empty object arrived after an event had been stored: 400, and the table
\* and the counter still hold that one event.
C9_Witness ==
  \E r, q \in Requests :
    /\ r < q /\ Answered(r) /\ resp[r].status = 200
    /\ body[q] = EmptyObject
    /\ resp[q] = [status |-> 400, body |-> "invalid payload"]
    /\ logs = {fields[r]} /\ CounterTotal = 1

\* --------------------------------------------------------------- C10
NoEventId(r) == IsEvent(r) /\ Raw(r, "event_id", <<>>) = <<>>

\* C10 as stated: the identifiers generated for two requests without an
\* event_id differ, and each such request that got past its write added a row
\* of its own.
C10_GeneratedIdsDistinct ==
  /\ \A r, q \in Requests :
       (r # q /\ NoEventId(r) /\ NoEventId(q)) =>
          fields[r].event_id # fields[q].event_id
  /\ Cardinality({x \in logs : \E r \in Requests :
                    NoEventId(r) /\ x.event_id = fields[r].event_id})
       >= Cardinality({r \in Requests : NoEventId(r) /\ Written(r)})

====
